---------------------------- MODULE Spec2Model ----------------------------
(***************************************************************************)
(* A model of src/src/get_transcript.ts: the command-line program that     *)
(* fetches the caption track of a video and prints it, optionally          *)
(* restricted to a time window.                                            *)
(*                                                                         *)
(* Strings the program inspects character by character (command-line       *)
(* arguments, time strings) are sequences of one-character strings.        *)
(* Snippet start times are floats in the program; here they are counted in *)
(* tenths of a second, while user-given times are whole seconds.           *)
(***************************************************************************)
EXTENDS Integers, Sequences, FiniteSets, TLC

VARIABLES
    pc,         \* position of main(), or of the function under study
    argv,       \* process.argv.slice(2)
    opts,       \* the ParseResult main() holds
    requests,   \* the network requests issued so far, in order
    responses,  \* the responses received so far, in order
    snippets,   \* the snippets main() holds
    stdout,     \* what console.log printed
    stderr,     \* what console.error printed
    exitCode,   \* the process outcome
    call,       \* the arguments of the function under study
    ret         \* what it returned or threw

vars == <<pc, argv, opts, requests, responses, snippets, stdout, stderr, exitCode, call, ret>>

Range(f) == {f[i] : i \in DOMAIN f}

-----------------------------------------------------------------------------
(* Results of functions that may throw.                                    *)

Return(v) == [ok |-> TRUE, value |-> v]

Throw(msg) == [ok |-> FALSE, error |-> msg]

-----------------------------------------------------------------------------
(* Characters and the string primitives the program uses.                  *)

Digits == <<"0", "1", "2", "3", "4", "5", "6", "7", "8", "9">>

IsDigit(c) == \E i \in 1..Len(Digits) : Digits[i] = c

DigitVal(c) == (CHOOSE i \in 1..Len(Digits) : Digits[i] = c) - 1

IsSpace(c) == c = " "

RECURSIVE TrimStart(_)
TrimStart(s) ==
    IF s # <<>> /\ IsSpace(Head(s)) THEN TrimStart(Tail(s)) ELSE s

RECURSIVE TrimEnd(_)
TrimEnd(s) ==
    IF s # <<>> /\ IsSpace(s[Len(s)]) THEN TrimEnd(SubSeq(s, 1, Len(s) - 1)) ELSE s

\* String.prototype.trim
Trim(s) == TrimEnd(TrimStart(s))

\* String.prototype.indexOf for a one-character needle, 0-based, -1 if absent
IndexOf(s, c) ==
    IF \A i \in 1..Len(s) : s[i] # c
    THEN -1
    ELSE (CHOOSE i \in 1..Len(s) : s[i] = c /\ \A j \in 1..(i - 1) : s[j] # c) - 1

\* String.prototype.split for a one-character separator
RECURSIVE Split(_, _)
Split(s, sep) ==
    LET idx == IndexOf(s, sep)
    IN  IF idx < 0
        THEN <<s>>
        ELSE <<SubSeq(s, 1, idx)>> \o Split(SubSeq(s, idx + 2, Len(s)), sep)

\* String.prototype.startsWith
StartsWith(s, p) == Len(s) >= Len(p) /\ SubSeq(s, 1, Len(p)) = p

Num(v) == [nan |-> FALSE, val |-> v]

NaN == [nan |-> TRUE, val |-> 0]

RECURSIVE LeadingDigits(_)
LeadingDigits(s) ==
    IF s # <<>> /\ IsDigit(Head(s)) THEN <<Head(s)>> \o LeadingDigits(Tail(s)) ELSE <<>>

RECURSIVE DecimalValue(_)
DecimalValue(d) ==
    IF d = <<>> THEN 0
    ELSE DecimalValue(SubSeq(d, 1, Len(d) - 1)) * 10 + DigitVal(d[Len(d)])

\* parseInt(str, 10): leading white space is skipped, a sign is read, then the
\* longest run of digits; what follows the digits is ignored; no digit gives NaN
ParseInt(str) ==
    LET t      == TrimStart(str)
        signed == t # <<>> /\ Head(t) \in {"-", "+"}
        neg    == t # <<>> /\ Head(t) = "-"
        d      == LeadingDigits(IF signed THEN Tail(t) ELSE t)
    IN  IF d = <<>> THEN NaN
        ELSE Num(IF neg THEN 0 - DecimalValue(d) ELSE DecimalValue(d))

-----------------------------------------------------------------------------
(* parseTimeString                                                         *)

ErrInvalidTime == "Invalid time (expected MM:SS or HH:MM:SS)"

ErrInvalidTimeMMSS == "Invalid time (expected MM:SS, seconds 0-59)"

ErrInvalidTimeHHMMSS == "Invalid time (expected HH:MM:SS, minutes and seconds 0-59)"

\* a variant that also bounds the minutes of MM:SS by 59
InvalidMMSS_MinutesBounded(m, sec) ==
    m.nan \/ sec.nan \/ m.val < 0 \/ m.val > 59 \/ sec.val < 0 \/ sec.val > 59

\* the guard of the two-segment form
InvalidMMSS(m, sec) ==
    m.nan \/ sec.nan \/ m.val < 0 \/ sec.val < 0 \/ sec.val > 59

\* the guard of the three-segment form
InvalidHHMMSS(h, m, sec) ==
    h.nan \/ m.nan \/ sec.nan \/ h.val < 0 \/ m.val < 0 \/ m.val > 59
        \/ sec.val < 0 \/ sec.val > 59

\* the two-segment form, once its segments are read
TimeOfMMSS(m, sec) ==
    IF InvalidMMSS(m, sec) THEN Throw(ErrInvalidTimeMMSS)
    ELSE Return(m.val * 60 + sec.val)

\* the three-segment form, once its segments are read
TimeOfHHMMSS(h, m, sec) ==
    IF InvalidHHMMSS(h, m, sec) THEN Throw(ErrInvalidTimeHHMMSS)
    ELSE Return(h.val * 3600 + m.val * 60 + sec.val)

\* the branches on parts.length
TimeOfParts(parts) ==
    IF Len(parts) = 2 THEN TimeOfMMSS(ParseInt(parts[1]), ParseInt(parts[2]))
    ELSE IF Len(parts) = 3
    THEN TimeOfHHMMSS(ParseInt(parts[1]), ParseInt(parts[2]), ParseInt(parts[3]))
    ELSE Throw(ErrInvalidTime)

\* what follows const trimmed = s.trim()
TimeOfTrimmed(trimmed) ==
    IF trimmed = <<>> THEN Throw(ErrInvalidTime)
    ELSE TimeOfParts(Split(trimmed, ":"))

ParseTimeString(s) == TimeOfTrimmed(Trim(s))

-----------------------------------------------------------------------------
(* The state of a run that studies one function: main() is not running.    *)

NoValue == <<>>

MainIdle ==
    /\ argv = <<>>
    /\ opts = NoValue
    /\ requests = <<>>
    /\ responses = <<>>
    /\ snippets = <<>>
    /\ stdout = <<>>
    /\ stderr = <<>>
    /\ exitCode = NoValue

MainUnchanged ==
    UNCHANGED <<argv, opts, requests, responses, snippets, stdout, stderr, exitCode>>

-----------------------------------------------------------------------------
(* parseTimeString applied to time strings.  A time string is put together *)
(* from components joined by ":"; each component is listed with what a     *)
(* reader of the string sees in it: whether it is a decimal number, and    *)
(* the integer it starts with, if any.                                     *)

MaxParts == 4

TimeComponents ==
    { [chars |-> <<>>,            numeric |-> FALSE, lead |-> <<>>],
      [chars |-> <<"0">>,         numeric |-> TRUE,  lead |-> <<0>>],
      [chars |-> <<"7">>,         numeric |-> TRUE,  lead |-> <<7>>],
      [chars |-> <<"5", "9">>,    numeric |-> TRUE,  lead |-> <<59>>],
      [chars |-> <<"6", "0">>,    numeric |-> TRUE,  lead |-> <<60>>],
      [chars |-> <<"-", "1">>,    numeric |-> TRUE,  lead |-> <<0 - 1>>],
      [chars |-> <<"x">>,         numeric |-> FALSE, lead |-> <<>>],
      [chars |-> <<"7", "x">>,    numeric |-> FALSE, lead |-> <<7>>] }

RECURSIVE JoinColon(_)
JoinColon(cs) ==
    IF Len(cs) = 1 THEN cs[1].chars
    ELSE cs[1].chars \o <<":">> \o JoinColon(Tail(cs))

TimeInputs ==
    { [fn |-> "parseTimeString", parts |-> cs,
       s |-> IF pad THEN <<" ">> \o JoinColon(cs) \o <<" ">> ELSE JoinColon(cs)] :
        cs \in UNION {[1..n -> TimeComponents] : n \in 1..MaxParts},
        pad \in BOOLEAN }

InitTime ==
    /\ pc = "call"
    /\ call \in TimeInputs
    /\ ret = NoValue
    /\ MainIdle

CallParseTimeString ==
    /\ pc = "call"
    /\ call.fn = "parseTimeString"
    /\ ret' = ParseTimeString(call.s)
    /\ pc' = "returned"
    /\ UNCHANGED call
    /\ MainUnchanged

NextTime == CallParseTimeString

SpecTime == InitTime /\ [][NextTime]_vars

-----------------------------------------------------------------------------
(* C10 (as amended): parseTimeString returns minutes*60+seconds for        *)
(* exactly 2 components and hours*3600+minutes*60+seconds for exactly 3,   *)
(* and throws an "Invalid time" error exactly when the component count is  *)
(* neither 2 nor 3, or a component does not start with a decimal integer,  *)
(* or a component is negative, or the seconds are above 59, or -- in the   *)
(* HH:MM:SS form only -- the minutes are above 59.  The minutes of the     *)
(* MM:SS form are not bounded, and text after a component's leading        *)
(* integer is ignored.  Every value returned is a non-negative integer.    *)

TimeReturned == pc = "returned" /\ call.fn = "parseTimeString"

LeadOf(c) == c.lead[1]

AcceptedByCode(cs) ==
    /\ Len(cs) \in {2, 3}
    /\ \A i \in 1..Len(cs) : cs[i].lead # <<>> /\ LeadOf(cs[i]) >= 0
    /\ LeadOf(cs[Len(cs)]) <= 59
    /\ Len(cs) = 3 => LeadOf(cs[2]) <= 59

ValueOf(cs) ==
    IF Len(cs) = 2 THEN LeadOf(cs[1]) * 60 + LeadOf(cs[2])
    ELSE LeadOf(cs[1]) * 3600 + LeadOf(cs[2]) * 60 + LeadOf(cs[3])

IsInvalidTimeError(r) ==
    ~r.ok /\ r.error \in {ErrInvalidTime, ErrInvalidTimeMMSS, ErrInvalidTimeHHMMSS}

C10_ParseTime ==
    TimeReturned =>
        /\ ret.ok <=> AcceptedByCode(call.parts)
        /\ ~ret.ok => IsInvalidTimeError(ret)
        /\ ret.ok => ret.value = ValueOf(call.parts) /\ ret.value \in Nat

\* a time in the MM:SS form whose minutes exceed 59 has been accepted
C10_Witness ==
    /\ TimeReturned
    /\ Len(call.parts) = 2
    /\ call.parts[1].lead # <<>> /\ LeadOf(call.parts[1]) > 59
    /\ ret.ok /\ ret.value = 3600 + 59

\* C10 as stated: every non-numeric component, and minutes outside [0,59]
\* in the MM:SS form too, make parseTimeString fail
AcceptedByClaim(cs) ==
    /\ Len(cs) \in {2, 3}
    /\ \A i \in 1..Len(cs) : cs[i].numeric /\ LeadOf(cs[i]) >= 0
    /\ LeadOf(cs[Len(cs)]) <= 59
    /\ LeadOf(cs[Len(cs) - 1]) <= 59

C10_Original ==
    TimeReturned =>
        /\ ret.ok <=> AcceptedByClaim(call.parts)
        /\ ret.ok => ret.value = ValueOf(call.parts) /\ ret.value \in Nat

-----------------------------------------------------------------------------
(* ParseResult: a record whose optional properties (video, from, to, only, *)
(* exclude) are fields that may be absent.                                 *)

Has(o, f) == f \in DOMAIN o

With(o, f, v) == (f :> v) @@ o

Without(o, f) == [g \in (DOMAIN o) \ {f} |-> o[g]]

-----------------------------------------------------------------------------
(* filterSnippets.  s.start is in tenths of a second; from, to, only and   *)
(* the exclude bounds are whole seconds.                                   *)

\* a whole number of seconds, in the unit of s.start
Secs(n) == n * 10

\* Math.round of a non-negative start: the nearest integer, halves upwards
MathRound(start) == (start + 5) \div 10

ErrFromAfterTo == "--from must be <= --to"

HasRange(o) == Has(o, "from") \/ Has(o, "to")

HasOnly(o) == Has(o, "only") /\ Len(o.only) > 0

FromSec(o) == IF Has(o, "from") THEN o.from ELSE 0

\* a variant that never checks the order of from and to
FromAfterTo_Unchecked(o) == FALSE

\* fromSec > toSec, where toSec is Infinity when opts.to is undefined
FromAfterTo(o) == Has(o, "to") /\ FromSec(o) > o.to

\* a variant that truncates the start instead of rounding it
KeptByOnly_Floor(s, o) == (s.start \div 10) \in Range(o.only)

\* onlySet.has(Math.round(s.start))
KeptByOnly(s, o) == MathRound(s.start) \in Range(o.only)

\* a variant whose upper end is exclusive
KeptByRange_OpenEnd(s, o) ==
    s.start >= Secs(FromSec(o)) /\ (Has(o, "to") => s.start < Secs(o.to))

\* s.start >= fromSec && s.start <= toSec
KeptByRange(s, o) ==
    s.start >= Secs(FromSec(o)) /\ (Has(o, "to") => s.start <= Secs(o.to))

\* a variant that looks at the first exclude range only
Excluded_FirstRangeOnly(s, o) ==
    s.start >= Secs(o.exclude[1][1]) /\ s.start <= Secs(o.exclude[1][2])

\* the loop over opts.exclude: some [lo, hi] holds s.start
Excluded(s, o) ==
    \E i \in 1..Len(o.exclude) :
        s.start >= Secs(o.exclude[i][1]) /\ s.start <= Secs(o.exclude[i][2])

\* the first pass: only, else range, else a copy
FirstPass(snips, o) ==
    LET ByOnly(s)  == KeptByOnly(s, o)
        ByRange(s) == KeptByRange(s, o)
    IN  IF HasOnly(o) THEN Return(SelectSeq(snips, ByOnly))
        ELSE IF HasRange(o) THEN
            IF FromAfterTo(o) THEN Throw(ErrFromAfterTo)
            ELSE Return(SelectSeq(snips, ByRange))
        ELSE Return(snips)

\* a variant whose exclude pass drops by position instead of by start time
ExcludePass_DropHead(filtered, o) ==
    IF filtered.ok /\ Has(o, "exclude") /\ filtered.value # <<>>
    THEN Return(Tail(filtered.value))
    ELSE filtered

\* the pass over opts.exclude, which a throw of the first pass never reaches
ExcludePass(filtered, o) ==
    LET NotExcluded(s) == ~Excluded(s, o)
    IN  IF ~filtered.ok THEN filtered
        ELSE IF Has(o, "exclude") /\ Len(o.exclude) > 0
             THEN Return(SelectSeq(filtered.value, NotExcluded))
             ELSE filtered

FilterSnippets(snips, o) == ExcludePass(FirstPass(snips, o), o)

-----------------------------------------------------------------------------
(* filterSnippets applied to snippet sequences and ParseResults.           *)

MaxSnippets == 3

\* 58.2 s, 59.5 s, 60.0 s and 61.4 s
SnippetStarts == {582, 595, 600, 614}

SnippetTexts == <<"a", "b", "c", "d", "e", "f">>

SelectionTimes == {58, 60, 61}

OnlyLists == {<<>>, <<60>>, <<61, 58>>}

ExcludeLists ==
    { <<>>,
      <<<<58, 59>>>>,
      <<<<58, 59>>, <<60, 61>>>>,
      <<<<60, 61>>, <<58, 59>>>>,
      <<<<58, 60>>, <<60, 60>>>> }

\* snippet sequences of up to n snippets; the text tells the snippets apart
SnippetSeqs(n) ==
    { [i \in DOMAIN st |-> [text |-> SnippetTexts[i], start |-> st[i], duration |-> 0]] :
        st \in UNION {[1..k -> SnippetStarts] : k \in 0..n} }

OptionalField(os, f, vs) == os \cup {With(o, f, v) : o \in os, v \in vs}

\* every ParseResult over the values above
ParseResults(base) ==
    OptionalField(
        OptionalField(
            OptionalField(
                OptionalField(base, "from", SelectionTimes),
                "to", SelectionTimes),
            "only", OnlyLists),
        "exclude", ExcludeLists)

VideoArg == <<"d", "Q", "w", "4", "w", "9", "W", "g", "X", "c", "Q">>

FilterInputs ==
    { [fn |-> "filterSnippets", snippets |-> ss, opts |-> o] :
        ss \in SnippetSeqs(MaxSnippets),
        o \in ParseResults({[video |-> VideoArg, timestamps |-> TRUE]}) }

InitFilter ==
    /\ pc = "call"
    /\ call \in FilterInputs
    /\ ret = NoValue
    /\ MainIdle

CallFilterSnippets ==
    /\ pc = "call"
    /\ call.fn = "filterSnippets"
    /\ ret' = FilterSnippets(call.snippets, call.opts)
    /\ pc' = "returned"
    /\ UNCHANGED call
    /\ MainUnchanged

NextFilter == CallFilterSnippets

SpecFilter == InitFilter /\ [][NextFilter]_vars

FilterReturned == pc = "returned" /\ call.fn = "filterSnippets"

\* snippet i of the input is in the result
Kept(i) == call.snippets[i] \in Range(ret.value)

\* the start of snippet i lies in the closed interval of some exclude range
InSomeExclude(i) ==
    /\ Has(call.opts, "exclude")
    /\ \E r \in Range(call.opts.exclude) :
        r[1] * 10 <= call.snippets[i].start /\ call.snippets[i].start <= r[2] * 10

OnlyRequested == Has(call.opts, "only") /\ call.opts.only # <<>>

StartsOf(ss) == [i \in DOMAIN ss |-> ss[i].start]

TextsOf(ss) == [i \in DOMAIN ss |-> ss[i].text]

-----------------------------------------------------------------------------
(* C2: for a request with from and/or to, no only times and from <= to,    *)
(* filterSnippets keeps a snippet if and only if lower <= start <= upper,  *)
(* with lower = from or 0, upper = to or unbounded, both ends inclusive,   *)
(* compared against the unrounded start -- and, where exclude ranges are   *)
(* given too, no exclude range holds the start (C4).                       *)

RangeRequested ==
    ~OnlyRequested /\ (Has(call.opts, "from") \/ Has(call.opts, "to"))

RangeInOrder ==
    ~(Has(call.opts, "from") /\ Has(call.opts, "to") /\ call.opts.from > call.opts.to)

LowerBound == IF Has(call.opts, "from") THEN call.opts.from ELSE 0

InWindow(i) ==
    /\ LowerBound * 10 <= call.snippets[i].start
    /\ Has(call.opts, "to") => call.snippets[i].start <= call.opts.to * 10

C2_RangeFilter ==
    (FilterReturned /\ RangeRequested /\ RangeInOrder) =>
        /\ ret.ok
        /\ Range(ret.value) \subseteq Range(call.snippets)
        /\ \A i \in DOMAIN call.snippets :
            Kept(i) <=> (InWindow(i) /\ ~InSomeExclude(i))

\* from=60, to=61 over starts 58.2, 60.0, 61.4 has kept the snippet at 60.0 only
C2_Witness ==
    /\ FilterReturned
    /\ DOMAIN call.opts = {"video", "timestamps", "from", "to"}
    /\ call.opts.from = 60 /\ call.opts.to = 61
    /\ StartsOf(call.snippets) = <<582, 600, 614>>
    /\ ret.ok /\ TextsOf(ret.value) = <<"b">>

-----------------------------------------------------------------------------
(* C3: for a request whose only list is non-empty, filterSnippets keeps a  *)
(* snippet if and only if its start rounded to the nearest integer (halves *)
(* upwards) is one of the only times -- and, where exclude ranges are      *)
(* given too, no exclude range holds the start (C4); from and to play no   *)
(* part.                                                                   *)

\* n is the integer nearest to the start of snippet i, halves rounded up
NearestIs(i, n) ==
    n * 10 - 5 <= call.snippets[i].start /\ call.snippets[i].start < n * 10 + 5

C3_OnlyFilter ==
    (FilterReturned /\ OnlyRequested) =>
        /\ ret.ok
        /\ Range(ret.value) \subseteq Range(call.snippets)
        /\ \A i \in DOMAIN call.snippets :
            Kept(i) <=> /\ \E n \in Range(call.opts.only) : NearestIs(i, n)
                        /\ ~InSomeExclude(i)

\* only={60} with from=61 over starts 58.2, 59.5, 60.0 has kept 59.5 and 60.0
C3_Witness ==
    /\ FilterReturned
    /\ DOMAIN call.opts = {"video", "timestamps", "from", "only"}
    /\ call.opts.only = <<60>> /\ call.opts.from = 61
    /\ StartsOf(call.snippets) = <<582, 595, 600>>
    /\ ret.ok /\ TextsOf(ret.value) = <<"b", "c">>

-----------------------------------------------------------------------------
(* C4: exclude ranges are a final pass over what the first pass (only,     *)
(* range or copy) kept: a snippet that survived the first pass is dropped  *)
(* if and only if its unrounded start lies in [low, high] of some exclude  *)
(* range; the result is the same for every order of the exclude list; and  *)
(* with exclude ranges alone the result is as long as the input less the   *)
(* snippets whose start lies in some range.                                *)

PermutedExcludes ==
    LET e == call.opts.exclude
    IN  { [i \in DOMAIN e |-> e[p[i]]] : p \in Permutations(DOMAIN e) }

C4_ExcludePass ==
    FilterReturned =>
        LET first == FilterSnippets(call.snippets, Without(call.opts, "exclude"))
        IN  /\ ret.ok <=> first.ok
            /\ ret.ok =>
                \A i \in DOMAIN call.snippets :
                    Kept(i) <=> /\ call.snippets[i] \in Range(first.value)
                                /\ ~InSomeExclude(i)
            /\ Has(call.opts, "exclude") =>
                \A e \in PermutedExcludes :
                    FilterSnippets(call.snippets, With(call.opts, "exclude", e)) = ret
            /\ (~RangeRequested /\ ~OnlyRequested) =>
                /\ ret.ok
                /\ Len(ret.value) = Len(call.snippets)
                    - Cardinality({i \in DOMAIN call.snippets : InSomeExclude(i)})

\* in only mode, the second of two exclude ranges has dropped a snippet the
\* first pass kept
C4_Witness ==
    /\ FilterReturned
    /\ DOMAIN call.opts = {"video", "timestamps", "only", "exclude"}
    /\ call.opts.only = <<61, 58>>
    /\ call.opts.exclude = <<<<60, 61>>, <<58, 59>>>>
    /\ StartsOf(call.snippets) = <<582, 600, 614>>
    /\ ret.ok /\ TextsOf(ret.value) = <<"c">>

-----------------------------------------------------------------------------
(* findBestTrack.  A CaptionTrack is a record with baseUrl, languageCode   *)
(* and an optional kind; baseUrl is the sequence of the pieces of the URL. *)

IsGenerated(t) == Has(t, "kind") /\ t.kind = "asr"

\* Array.prototype.find for a language code: <<>> when nothing is found
FindLanguage(ts, lang) ==
    IF \A i \in 1..Len(ts) : ts[i].languageCode # lang
    THEN <<>>
    ELSE <<ts[CHOOSE i \in 1..Len(ts) :
                /\ ts[i].languageCode = lang
                /\ \A j \in 1..(i - 1) : ts[j].languageCode # lang]>>

\* a variant that prefers the generated track of a language
FindForLanguage_GeneratedFirst(manual, generated, lang) ==
    IF FindLanguage(generated, lang) # <<>>
    THEN FindLanguage(generated, lang)
    ELSE FindLanguage(manual, lang)

\* manual.find(...) ?? generated.find(...)
FindForLanguage(manual, generated, lang) ==
    IF FindLanguage(manual, lang) # <<>>
    THEN FindLanguage(manual, lang)
    ELSE FindLanguage(generated, lang)

RECURSIVE FindForLanguages(_, _, _)
FindForLanguages(manual, generated, languages) ==
    IF languages = <<>> THEN <<>>
    ELSE LET t == FindForLanguage(manual, generated, Head(languages))
         IN  IF t # <<>> THEN t
             ELSE FindForLanguages(manual, generated, Tail(languages))

FindBestTrack(tracks, languages) ==
    LET IsManual(t) == ~IsGenerated(t)
        manual    == SelectSeq(tracks, IsManual)
        generated == SelectSeq(tracks, IsGenerated)
        t         == FindForLanguages(manual, generated, languages)
    IN  IF t # <<>> THEN t[1] ELSE tracks[1]

-----------------------------------------------------------------------------
(* findBestTrack applied to non-empty track lists and language lists.      *)

MaxTracks == 3

TrackUrls == <<"u1", "u2", "u3", "u4", "u5">>

FmtParam == "&fmt=srv3"

TrackLanguages == {"en", "de", "fr"}

LanguageLists == {<<>>, <<"en">>, <<"de">>, <<"en", "de">>, <<"de", "en">>}

\* the tracks a list may hold at position i: manual or generated, any language
TracksAt(i) ==
    LET manual == { [baseUrl |-> <<TrackUrls[i], FmtParam>>, languageCode |-> l] :
                        l \in TrackLanguages }
    IN  manual \cup {With(t, "kind", "asr") : t \in manual}

TrackLists(n) ==
    UNION { {ts \in [1..k -> UNION {TracksAt(i) : i \in 1..k}] :
                \A i \in 1..k : ts[i] \in TracksAt(i)} : k \in 1..n }

TrackInputs ==
    { [fn |-> "findBestTrack", tracks |-> ts, languages |-> ls] :
        ts \in TrackLists(MaxTracks), ls \in LanguageLists }

InitTrack ==
    /\ pc = "call"
    /\ call \in TrackInputs
    /\ ret = NoValue
    /\ MainIdle

CallFindBestTrack ==
    /\ pc = "call"
    /\ call.fn = "findBestTrack"
    /\ ret' = FindBestTrack(call.tracks, call.languages)
    /\ pc' = "returned"
    /\ UNCHANGED call
    /\ MainUnchanged

NextTrack == CallFindBestTrack

SpecTrack == InitTrack /\ [][NextTrack]_vars

-----------------------------------------------------------------------------
(* C8: for a non-empty track list findBestTrack walks the preferred        *)
(* languages in order and returns, for the first language that any track   *)
(* carries, the first manual track of that language if there is one and    *)
(* otherwise the first generated track of it; when no preferred language   *)
(* is carried by any track it returns the first track of the list; so it   *)
(* always returns a member of the list.                                    *)

TrackReturned == pc = "returned" /\ call.fn = "findBestTrack"

Carried(lang) == \E i \in DOMAIN call.tracks : call.tracks[i].languageCode = lang

ManualAt(i) == ~("kind" \in DOMAIN call.tracks[i] /\ call.tracks[i].kind = "asr")

\* the first position of the list that holds a track of lang that is manual
\* (wantManual) or generated (~wantManual)
FirstOf(lang, wantManual) ==
    CHOOSE i \in DOMAIN call.tracks :
        /\ call.tracks[i].languageCode = lang /\ ManualAt(i) = wantManual
        /\ \A j \in 1..(i - 1) :
            ~(call.tracks[j].languageCode = lang /\ ManualAt(j) = wantManual)

ExpectedTrack ==
    IF \A k \in DOMAIN call.languages : ~Carried(call.languages[k])
    THEN call.tracks[1]
    ELSE LET k == CHOOSE k \in DOMAIN call.languages :
                    /\ Carried(call.languages[k])
                    /\ \A j \in 1..(k - 1) : ~Carried(call.languages[j])
             lang == call.languages[k]
         IN  IF \E i \in DOMAIN call.tracks :
                    call.tracks[i].languageCode = lang /\ ManualAt(i)
             THEN call.tracks[FirstOf(lang, TRUE)]
             ELSE call.tracks[FirstOf(lang, FALSE)]

C8_FindBestTrack ==
    TrackReturned => ret = ExpectedTrack /\ ret \in Range(call.tracks)

\* with languages en, de: a generated en track has won over a manual de track
\* that stands before it
C8_Witness ==
    /\ TrackReturned
    /\ call.languages = <<"en", "de">>
    /\ Len(call.tracks) = 3
    /\ call.tracks[1].languageCode = "de" /\ ManualAt(1)
    /\ call.tracks[2].languageCode = "en" /\ ~ManualAt(2)
    /\ call.tracks[3].languageCode = "en" /\ ~ManualAt(3)
    /\ ret = call.tracks[2]

-----------------------------------------------------------------------------
(* getCaptionTracks.  An InnertubePlayerResponse is a record with optional *)
(* fields playabilityStatus (itself with optional status and reason) and   *)
(* captionTracks (the list at captions.playerCaptionsTracklistRenderer     *)
(* .captionTracks, absent when a link of that chain is).  A status or      *)
(* reason text is the sequence of its words; "" is the empty sequence.     *)

\* String.prototype.includes, for a word of the text
Includes(text, word) == word \in Range(text)

StatusOK == <<"OK">>

StatusLoginRequired == <<"LOGIN_REQUIRED">>

ErrRequestBlocked == "Request blocked. Try again later."

ErrAgeRestricted == "Video is age-restricted or unavailable."

ErrVideoUnavailable == "Video is unavailable."

ErrVideoUnplayable == "Video unplayable: ${reason}"

ErrTranscriptsDisabled == "Transcripts are disabled for this video."

\* an error whose message holds a text of the response
ThrowWith(msg, text) == [ok |-> FALSE, error |-> msg, detail |-> text]

\* a variant that looks for "unavailable" before "inappropriate"
ClassifyUnplayable_UnavailableFirst(status, reason) ==
    IF status = StatusLoginRequired /\ Includes(reason, "bot")
    THEN Throw(ErrRequestBlocked)
    ELSE IF Includes(reason, "unavailable") THEN Throw(ErrVideoUnavailable)
    ELSE IF Includes(reason, "inappropriate") THEN Throw(ErrAgeRestricted)
    ELSE ThrowWith(ErrVideoUnplayable, reason)

\* the throws for a status that is not OK
ClassifyUnplayable(status, reason) ==
    IF status = StatusLoginRequired /\ Includes(reason, "bot")
    THEN Throw(ErrRequestBlocked)
    ELSE IF Includes(reason, "inappropriate") THEN Throw(ErrAgeRestricted)
    ELSE IF Includes(reason, "unavailable") THEN Throw(ErrVideoUnavailable)
    ELSE ThrowWith(ErrVideoUnplayable, reason)

GetCaptionTracks(data) ==
    LET ps == IF Has(data, "playabilityStatus") THEN data.playabilityStatus ELSE <<>>
    IN  IF Has(ps, "status") /\ ps.status # <<>> /\ ps.status # StatusOK
        THEN ClassifyUnplayable(ps.status,
                                IF Has(ps, "reason") THEN ps.reason ELSE ps.status)
        ELSE IF ~Has(data, "captionTracks") \/ Len(data.captionTracks) = 0
             THEN Throw(ErrTranscriptsDisabled)
             ELSE Return(data.captionTracks)

-----------------------------------------------------------------------------
(* getCaptionTracks applied to player responses.                           *)

Statuses == {<<>>, StatusOK, StatusLoginRequired, <<"ERROR">>}

ReasonKeywords == {"bot", "inappropriate", "unavailable"}

\* a reason text for every set of keywords it may mention
ReasonMentioning(ks) ==
    <<"This", "video">>
        \o (IF "unavailable" \in ks THEN <<"unavailable">> ELSE <<>>)
        \o (IF "inappropriate" \in ks THEN <<"inappropriate">> ELSE <<>>)
        \o (IF "bot" \in ks THEN <<"bot">> ELSE <<>>)

Reasons == {ReasonMentioning(ks) : ks \in SUBSET ReasonKeywords}

PlayabilityStatuses ==
    OptionalField(OptionalField({<<>>}, "status", Statuses), "reason", Reasons)

PlayerData(trackLists) ==
    OptionalField(OptionalField({<<>>}, "playabilityStatus", PlayabilityStatuses),
                  "captionTracks", trackLists)

CaptionsInputs ==
    { [fn |-> "getCaptionTracks", data |-> d] :
        d \in PlayerData({<<>>} \cup TrackLists(MaxTracks - 1)) }

InitCaptions ==
    /\ pc = "call"
    /\ call \in CaptionsInputs
    /\ ret = NoValue
    /\ MainIdle

CallGetCaptionTracks ==
    /\ pc = "call"
    /\ call.fn = "getCaptionTracks"
    /\ ret' = GetCaptionTracks(call.data)
    /\ pc' = "returned"
    /\ UNCHANGED call
    /\ MainUnchanged

NextCaptions == CallGetCaptionTracks

SpecCaptions == InitCaptions /\ [][NextCaptions]_vars

-----------------------------------------------------------------------------
(* C9: the classification of a player response is a total decision: a      *)
(* status that is absent (or the empty string) or "OK" goes on to the      *)
(* track list; any other status throws RequestBlocked when it is the       *)
(* login-requirement status and the reason mentions "bot", else            *)
(* AgeRestricted when the reason mentions "inappropriate", else            *)
(* VideoUnavailable when it mentions "unavailable", else VideoUnplayable   *)
(* with the reason text (the status text when there is no reason); and     *)
(* only when the status check passed a missing or empty track list throws  *)
(* CaptionsDisabled and a non-empty one is returned unchanged.             *)

CaptionsReturned == pc = "returned" /\ call.fn = "getCaptionTracks"

GivenStatus ==
    IF "playabilityStatus" \in DOMAIN call.data
        /\ "status" \in DOMAIN call.data.playabilityStatus
    THEN call.data.playabilityStatus.status
    ELSE <<>>

GivenReason ==
    IF "reason" \in DOMAIN call.data.playabilityStatus
    THEN call.data.playabilityStatus.reason
    ELSE GivenStatus

Mentions(word) == \E i \in DOMAIN GivenReason : GivenReason[i] = word

StatusPasses == GivenStatus = <<>> \/ GivenStatus = <<"OK">>

C9_Classification ==
    CaptionsReturned =>
        IF StatusPasses THEN
            IF "captionTracks" \in DOMAIN call.data /\ call.data.captionTracks # <<>>
            THEN ret = [ok |-> TRUE, value |-> call.data.captionTracks]
            ELSE ret = [ok |-> FALSE, error |-> ErrTranscriptsDisabled]
        ELSE IF GivenStatus = <<"LOGIN_REQUIRED">> /\ Mentions("bot")
            THEN ret = [ok |-> FALSE, error |-> ErrRequestBlocked]
        ELSE IF Mentions("inappropriate")
            THEN ret = [ok |-> FALSE, error |-> ErrAgeRestricted]
        ELSE IF Mentions("unavailable")
            THEN ret = [ok |-> FALSE, error |-> ErrVideoUnavailable]
        ELSE ret = [ok |-> FALSE, error |-> ErrVideoUnplayable, detail |-> GivenReason]

\* a status that is not the login requirement, with a reason that mentions
\* "bot", "inappropriate" and "unavailable", has been classed AgeRestricted
\* although the response holds caption tracks
C9_Witness ==
    /\ CaptionsReturned
    /\ GivenStatus = <<"ERROR">>
    /\ Mentions("bot") /\ Mentions("inappropriate") /\ Mentions("unavailable")
    /\ "captionTracks" \in DOMAIN call.data /\ call.data.captionTracks # <<>>
    /\ ret = [ok |-> FALSE, error |-> ErrAgeRestricted]

-----------------------------------------------------------------------------
(* parseRangeString and parseArgs.                                         *)

ErrInvalidRange == "Invalid exclude range (expected START-END, e.g. 1:25:21-1:27:01)"

ErrRangeOrder == "Invalid exclude range (start must be <= end)"

ErrFromNeedsValue == "--from requires a time value (e.g. 00:01:00)"

ErrToNeedsValue == "--to requires a time value (e.g. 00:05:00)"

\* start and end, once both sides are parsed
CheckedRange(start, end) ==
    IF ~start.ok THEN start
    ELSE IF ~end.ok THEN end
    ELSE IF start.value > end.value THEN Throw(ErrRangeOrder)
    ELSE Return(<<start.value, end.value>>)

\* what follows const idx = s.indexOf("-")
RangeAt(s, idx) ==
    IF idx <= 0 \/ idx = Len(s) - 1 THEN Throw(ErrInvalidRange)
    ELSE CheckedRange(ParseTimeString(SubSeq(s, 1, idx)),
                      ParseTimeString(SubSeq(s, idx + 2, Len(s))))

ParseRangeString(s) == RangeAt(s, IndexOf(s, "-"))

FlagTimestamps == <<"-", "-", "t", "i", "m", "e", "s", "t", "a", "m", "p", "s">>

FlagT == <<"-", "t">>

FlagFrom == <<"-", "-", "f", "r", "o", "m">>

FlagTo == <<"-", "-", "t", "o">>

FlagOnly == <<"-", "-", "o", "n", "l", "y">>

FlagExclude == <<"-", "-", "e", "x", "c", "l", "u", "d", "e">>

FLAGS == {FlagTimestamps, FlagT, FlagFrom, FlagTo, FlagOnly, FlagExclude}

\* where the inner loops of --only and --exclude stop: the first index from i
\* on that holds a flag, or the end of the arguments
RECURSIVE ValuesEnd(_, _)
ValuesEnd(args, i) ==
    IF i <= Len(args) /\ args[i] \notin FLAGS THEN ValuesEnd(args, i + 1) ELSE i

\* a value pushed in front of those pushed after it; the first throw wins
Push(v, rest) ==
    IF ~v.ok THEN v
    ELSE IF ~rest.ok THEN rest
    ELSE Return(<<v.value>> \o rest.value)

\* result.only.push(parseTimeString(...)) over the words
RECURSIVE ParseTimes(_)
ParseTimes(words) ==
    IF words = <<>> THEN Return(<<>>)
    ELSE Push(ParseTimeString(Head(words)), ParseTimes(Tail(words)))

\* result.exclude.push(parseRangeString(...)) over the words
RECURSIVE ParseRanges(_)
ParseRanges(words) ==
    IF words = <<>> THEN Return(<<>>)
    ELSE Push(ParseRangeString(Head(words)), ParseRanges(Tail(words)))

\* where an iteration of the while loop leaves the index and the result
Continue(i, result) == [ok |-> TRUE, i |-> i, result |-> result]

\* result[field] = v, unless reading v threw; the loop goes on at index i
Assign(result, field, v, i) ==
    IF ~v.ok THEN v ELSE Continue(i, With(result, field, v.value))

\* one iteration of the while loop of parseArgs, at index i (1-based)
ParseArgsStep(args, i, result) ==
    IF args[i] = FlagTimestamps \/ args[i] = FlagT THEN
        Continue(i + 1, With(result, "timestamps", TRUE))
    ELSE IF args[i] = FlagFrom THEN
        IF i + 1 > Len(args) THEN Throw(ErrFromNeedsValue)
        ELSE Assign(result, "from", ParseTimeString(args[i + 1]), i + 2)
    ELSE IF args[i] = FlagTo THEN
        IF i + 1 > Len(args) THEN Throw(ErrToNeedsValue)
        ELSE Assign(result, "to", ParseTimeString(args[i + 1]), i + 2)
    ELSE IF args[i] = FlagOnly THEN
        Assign(result, "only",
               ParseTimes(SubSeq(args, i + 1, ValuesEnd(args, i + 1) - 1)),
               ValuesEnd(args, i + 1))
    ELSE IF args[i] = FlagExclude THEN
        Assign(result, "exclude",
               ParseRanges(SubSeq(args, i + 1, ValuesEnd(args, i + 1) - 1)),
               ValuesEnd(args, i + 1))
    ELSE IF ~StartsWith(args[i], <<"-">>) THEN
        Continue(i + 1, With(result, "video", args[i]))
    ELSE Continue(i + 1, result)

RECURSIVE ParseArgsFrom(_, _, _)

\* the loop after an iteration: a throw ends it
ParseArgsAfter(args, step) ==
    IF ~step.ok THEN step ELSE ParseArgsFrom(args, step.i, step.result)

\* the while loop of parseArgs from index i on
ParseArgsFrom(args, i, result) ==
    IF i > Len(args) THEN Return(result)
    ELSE ParseArgsAfter(args, ParseArgsStep(args, i, result))

\* the result starts as { video: undefined, timestamps: false }
ParseArgs(args) == ParseArgsFrom(args, 1, [timestamps |-> FALSE])

-----------------------------------------------------------------------------
(* extractVideoId                                                          *)

ErrVideoId == "Could not extract video ID from: ${urlOrId}"

IdChars ==
    { "a", "b", "c", "d", "e", "f", "g", "h", "i", "j", "k", "l", "m",
      "n", "o", "p", "q", "r", "s", "t", "u", "v", "w", "x", "y", "z",
      "A", "B", "C", "D", "E", "F", "G", "H", "I", "J", "K", "L", "M",
      "N", "O", "P", "Q", "R", "S", "T", "U", "V", "W", "X", "Y", "Z",
      "0", "1", "2", "3", "4", "5", "6", "7", "8", "9", "_", "-" }

IdLength == 11

UrlPrefixes ==
    { <<"y", "o", "u", "t", "u", "b", "e", ".", "c", "o", "m", "/", "w", "a", "t", "c", "h", "?", "v", "=">>,
      <<"y", "o", "u", "t", "u", ".", "b", "e", "/">>,
      <<"y", "o", "u", "t", "u", "b", "e", ".", "c", "o", "m", "/", "e", "m", "b", "e", "d", "/">>,
      <<"y", "o", "u", "t", "u", "b", "e", ".", "c", "o", "m", "/", "v", "/">> }

IsIdAt(s, p) ==
    /\ p + IdLength - 1 <= Len(s)
    /\ \A k \in p..(p + IdLength - 1) : s[k] \in IdChars

\* the first pattern matches at position p: a URL prefix, then an identifier
UrlMatchAt(s, p) ==
    \E pre \in UrlPrefixes :
        /\ StartsWith(SubSeq(s, p, Len(s)), pre)
        /\ IsIdAt(s, p + Len(pre))

\* the identifier of the match at p
UrlIdAt(s, p) ==
    LET pre == CHOOSE pre \in UrlPrefixes :
                    StartsWith(SubSeq(s, p, Len(s)), pre) /\ IsIdAt(s, p + Len(pre))
    IN  SubSeq(s, p + Len(pre), p + Len(pre) + IdLength - 1)

ExtractVideoId(urlOrId) ==
    IF \E p \in 1..Len(urlOrId) : UrlMatchAt(urlOrId, p)
    THEN Return(UrlIdAt(urlOrId,
                CHOOSE p \in 1..Len(urlOrId) :
                    /\ UrlMatchAt(urlOrId, p)
                    /\ \A q \in 1..(p - 1) : ~UrlMatchAt(urlOrId, q)))
    ELSE IF Len(urlOrId) = IdLength /\ IsIdAt(urlOrId, 1) THEN Return(urlOrId)
    ELSE Throw(ErrVideoId)

-----------------------------------------------------------------------------
(* The watch page.  The page's markup is the sequence of the fragments the *)
(* program looks for: an "INNERTUBE_API_KEY" entry with its value, the     *)
(* g-recaptcha marker, or other markup.                                    *)

ErrPageLoad == "Failed to load video page: ${res.status}"

ErrBlockedPage == "Request blocked (IP/rate limit). Try again later."

ErrNoApiKey == "Could not extract Innertube API key for video ${videoId}"

\* the pattern asks for a key of at least one character
IsKeyFragment(f) == f.kind = "INNERTUBE_API_KEY" /\ f.value # ""

ExtractInnertubeApiKey(html) ==
    IF \E i \in 1..Len(html) : IsKeyFragment(html[i])
    THEN Return(html[CHOOSE i \in 1..Len(html) :
                        /\ IsKeyFragment(html[i])
                        /\ \A j \in 1..(i - 1) : ~IsKeyFragment(html[j])].value)
    ELSE IF \E i \in 1..Len(html) : html[i].kind = "g-recaptcha"
    THEN Throw(ErrBlockedPage)
    ELSE Throw(ErrNoApiKey)

\* a variant that goes on with an empty key when the page holds none
KeyOrEmpty(key) == IF key.ok THEN key ELSE Return("")

HandlePage_KeyOptional(res) ==
    IF ~res.ok THEN ThrowWith(ErrPageLoad, res.status)
    ELSE KeyOrEmpty(ExtractInnertubeApiKey(res.html))

\* fetchWatchPageHtml after its fetch, then extractInnertubeApiKey
HandlePage(res) ==
    IF ~res.ok THEN ThrowWith(ErrPageLoad, res.status)
    ELSE ExtractInnertubeApiKey(res.html)

-----------------------------------------------------------------------------
(* The player response, and the choice of the track.                       *)

ErrInnertube == "Innertube API error: ${res.status}"

\* String.prototype.replace of a piece of the URL: the first occurrence goes
RemoveFirst(url, piece) ==
    IF \A i \in 1..Len(url) : url[i] # piece THEN url
    ELSE LET i == CHOOSE i \in 1..Len(url) :
                    url[i] = piece /\ \A j \in 1..(i - 1) : url[j] # piece
         IN  SubSeq(url, 1, i - 1) \o SubSeq(url, i + 1, Len(url))

\* findBestTrack(tracks, ["en"]) and the URL of the timed-text request
TimedTextUrl(tracks) ==
    IF ~tracks.ok THEN tracks
    ELSE Return(RemoveFirst(FindBestTrack(tracks.value, <<"en">>).baseUrl, FmtParam))

\* fetchInnertubeData after its fetch, then getCaptionTracks and findBestTrack
HandlePlayer(res) ==
    IF ~res.ok THEN ThrowWith(ErrInnertube, res.status)
    ELSE TimedTextUrl(GetCaptionTracks(res.data))

-----------------------------------------------------------------------------
(* parseTranscriptXml.  The payload is the sequence of its <text start=..> *)
(* elements: start in tenths of a second, the dur attribute when there is  *)
(* one (<<>> for dur="", <<d>> for a number), and the inner text as a      *)
(* sequence of tokens: words, " ", "<i>" (nested markup), "&lt;i&gt;"      *)
(* (escaped markup) and "&amp;".                                           *)

\* the pattern asks for a dur attribute and an inner text free of "<"
MatchesTextPattern(e) ==
    Has(e, "dur") /\ \A i \in 1..Len(e.text) : e.text[i] # "<i>"

UnescapeToken(tok) ==
    IF tok = "&amp;" THEN "&"
    ELSE IF tok = "&lt;i&gt;" THEN "<i>"
    ELSE tok

\* unescapeHtml
UnescapeHtml(text) == [i \in 1..Len(text) |-> UnescapeToken(text[i])]

\* .replace(/<[^>]*>/g, "")
StripTags(text) ==
    LET NotTag(tok) == tok # "<i>"
    IN  SelectSeq(text, NotTag)

NormalizeText(raw) == Trim(StripTags(UnescapeHtml(raw)))

RECURSIVE ParseTranscriptXml(_)
ParseTranscriptXml(xml) ==
    IF xml = <<>> THEN <<>>
    ELSE LET e    == Head(xml)
             text == NormalizeText(e.text)
         IN  (IF MatchesTextPattern(e) /\ text # <<>>
              THEN <<[text |-> text, start |-> e.start,
                      duration |-> IF e.dur = <<>> THEN 0 ELSE e.dur[1]]>>
              ELSE <<>>)
             \o ParseTranscriptXml(Tail(xml))

-----------------------------------------------------------------------------
(* formatTimestamp and formatTranscript                                    *)

RECURSIVE ToChars(_)
\* String(n) for a natural number
ToChars(n) ==
    IF n < 10 THEN <<Digits[n + 1]>>
    ELSE ToChars(n \div 10) \o <<Digits[(n % 10) + 1]>>

\* String(n).padStart(2, "0")
Pad2(n) == IF n < 10 THEN <<"0">> \o ToChars(n) ELSE ToChars(n)

\* seconds is given in tenths; each component is floored
FormatTimestamp(seconds) ==
    LET h == seconds \div 36000
        m == (seconds % 36000) \div 600
        s == (seconds % 600) \div 10
    IN  IF h > 0 THEN Pad2(h) \o <<":">> \o Pad2(m) \o <<":">> \o Pad2(s)
        ELSE Pad2(m) \o <<":">> \o Pad2(s)

\* the lines of the transcript, which join("\n") puts together
FormatTranscript(snips, withTimestamps) ==
    IF withTimestamps
    THEN [i \in 1..Len(snips) |->
            <<"[">> \o FormatTimestamp(snips[i].start) \o <<"]", " ">> \o snips[i].text]
    ELSE [i \in 1..Len(snips) |-> snips[i].text]

-----------------------------------------------------------------------------
(* main: the checks between parseArgs and the pipeline.                    *)

ErrTimestampsRequired ==
    "Time range options (--from, --to, --only, --exclude) require --timestamps."

ErrConflict == "Cannot use --from/--to with --only."

ErrUsage == "Usage: node dist/get_transcript.js <video_id_or_url> ..."

ErrFetchTranscript == "Failed to fetch transcript data."

\* a variant that forgets the exclude ranges
HasRangeOpt_WithoutExclude(o) ==
    Has(o, "from") \/ Has(o, "to") \/ (Has(o, "only") /\ Len(o.only) > 0)

HasRangeOpt(o) ==
    \/ Has(o, "from") \/ Has(o, "to")
    \/ (Has(o, "only") /\ Len(o.only) > 0)
    \/ (Has(o, "exclude") /\ Len(o.exclude) > 0)

\* a variant that looks at the only/from/to conflict first
Validate_ConflictFirst(o) ==
    IF (Has(o, "from") \/ Has(o, "to")) /\ Has(o, "only") /\ Len(o.only) > 0
    THEN Throw(ErrConflict)
    ELSE IF HasRangeOpt(o) /\ ~o.timestamps THEN Throw(ErrTimestampsRequired)
    ELSE IF ~Has(o, "video") \/ o.video = <<>> THEN Throw(ErrUsage)
    ELSE Return(o)

Validate(o) ==
    IF HasRangeOpt(o) /\ ~o.timestamps THEN Throw(ErrTimestampsRequired)
    ELSE IF (Has(o, "from") \/ Has(o, "to")) /\ Has(o, "only") /\ Len(o.only) > 0
    THEN Throw(ErrConflict)
    ELSE IF ~Has(o, "video") \/ o.video = <<>> THEN Throw(ErrUsage)
    ELSE Return(o)

\* formatTranscript of what the filter left, unless it threw
Formatted(filtered, o) ==
    IF ~filtered.ok THEN filtered
    ELSE Return([snippets |-> filtered.value,
                 transcript |-> FormatTranscript(filtered.value, o.timestamps)])

\* snippets = filterSnippets(snippets, opts) when a range option is given
Filtered(parsed, o) ==
    IF HasRangeOpt(o) THEN FilterSnippets(parsed, o) ELSE Return(parsed)

\* the timed-text response: parse, filter, format
HandleTimedText(res, o) ==
    IF ~res.ok THEN Throw(ErrFetchTranscript)
    ELSE Formatted(Filtered(ParseTranscriptXml(res.xml), o), o)

-----------------------------------------------------------------------------
(* One invocation of the program.                                          *)

ErrorOf(r) == Without(r, "ok")

\* console.error("Error:", message); process.exit(1)
Fail(r) ==
    /\ stderr' = <<ErrorOf(r)>>
    /\ exitCode' = <<1>>
    /\ pc' = "exited"

\* the fetch of the watch page, unless extractVideoId threw
FetchPage(videoId) ==
    IF ~videoId.ok
    THEN Fail(videoId) /\ UNCHANGED requests
    ELSE /\ requests' = <<[stage |-> "page", videoId |-> videoId.value]>>
         /\ pc' = "awaitPage"
         /\ UNCHANGED <<stderr, exitCode>>

\* main() after the checks on opts
AfterValidate(valid) ==
    IF ~valid.ok
    THEN Fail(valid) /\ UNCHANGED requests
    ELSE FetchPage(ExtractVideoId(valid.value.video))

\* main() after parseArgs
AfterParseArgs(parsed) ==
    IF ~parsed.ok
    THEN Fail(parsed) /\ UNCHANGED <<opts, requests>>
    ELSE opts' = parsed.value /\ AfterValidate(Validate(parsed.value))

\* main() up to its first await: parseArgs, the checks, extractVideoId and
\* the fetch of the watch page
MainStart ==
    /\ pc = "start"
    /\ AfterParseArgs(ParseArgs(argv))
    /\ UNCHANGED <<argv, responses, snippets, stdout, call, ret>>

\* the fetch of the player data, unless the page or its key failed
FetchPlayer(apiKey) ==
    IF ~apiKey.ok
    THEN Fail(apiKey) /\ UNCHANGED requests
    ELSE /\ requests' = Append(requests,
                [stage |-> "player", apiKey |-> apiKey.value,
                 videoId |-> requests[1].videoId])
         /\ pc' = "awaitPlayer"
         /\ UNCHANGED <<stderr, exitCode>>

\* the watch page arrives
PageResponse(res) ==
    /\ pc = "awaitPage"
    /\ responses' = Append(responses, res)
    /\ FetchPlayer(HandlePage(res))
    /\ UNCHANGED <<argv, opts, snippets, stdout, call, ret>>

\* the fetch of the timed text, unless the player data failed
FetchTimedText(baseUrl) ==
    IF ~baseUrl.ok
    THEN Fail(baseUrl) /\ UNCHANGED requests
    ELSE /\ requests' = Append(requests, [stage |-> "timedtext", url |-> baseUrl.value])
         /\ pc' = "awaitTimedText"
         /\ UNCHANGED <<stderr, exitCode>>

\* the player response arrives
PlayerResponse(res) ==
    /\ pc = "awaitPlayer"
    /\ responses' = Append(responses, res)
    /\ FetchTimedText(HandlePlayer(res))
    /\ UNCHANGED <<argv, opts, snippets, stdout, call, ret>>

\* console.log(transcript), unless a step threw
Output(out) ==
    IF ~out.ok
    THEN Fail(out) /\ UNCHANGED <<snippets, stdout>>
    ELSE /\ snippets' = out.value.snippets
         /\ stdout' = <<out.value.transcript>>
         /\ exitCode' = <<0>>
         /\ pc' = "exited"
         /\ UNCHANGED stderr

\* the timed-text payload arrives
TimedTextResponse(res) ==
    /\ pc = "awaitTimedText"
    /\ responses' = Append(responses, res)
    /\ Output(HandleTimedText(res, opts))
    /\ UNCHANGED <<argv, opts, requests, call, ret>>

-----------------------------------------------------------------------------
(* The command lines and the responses of the network.                     *)

VideoUrl == <<"h", "t", "t", "p", "s", ":", "/", "/", "y", "o", "u", "t", "u", ".", "b", "e", "/", "d", "Q", "w", "4", "w", "9", "W", "g", "X", "c", "Q">>

VideoWords == {VideoArg, VideoUrl, <<"a", "b", "c">>}

\* 0:58, 1:00, 1:01 and the invalid 1:60
Time058 == <<"0", ":", "5", "8">>

Time100 == <<"1", ":", "0", "0">>

Time101 == <<"1", ":", "0", "1">>

Time160 == <<"1", ":", "6", "0">>

Range058to059 == <<"0", ":", "5", "8", "-", "0", ":", "5", "9">>

Range100to101 == <<"1", ":", "0", "0", "-", "1", ":", "0", "1">>

Range101to100 == <<"1", ":", "0", "1", "-", "1", ":", "0", "0">>

Optional(parts) == {<<>>} \cup parts

ArgVectors ==
    { v \o t \o f \o u \o o \o e :
        v \in Optional({<<w>> : w \in VideoWords}),
        t \in Optional({<<FlagTimestamps>>, <<FlagT>>}),
        f \in Optional({<<FlagFrom, w>> : w \in {Time100, Time101, Time160}}
                        \cup {<<FlagFrom>>}),
        u \in Optional({<<FlagTo, w>> : w \in {Time058, Time100}}),
        o \in Optional({<<FlagOnly>>, <<FlagOnly, Time100>>,
                        <<FlagOnly, Time101, Time058>>}),
        e \in Optional({<<FlagExclude>>, <<FlagExclude, Range058to059>>,
                        <<FlagExclude, Range058to059, Range100to101>>,
                        <<FlagExclude, Time100>>,
                        <<FlagExclude, Range101to100>>}) }

PageFragments ==
    { [kind |-> "INNERTUBE_API_KEY", value |-> "k1"],
      [kind |-> "INNERTUBE_API_KEY", value |-> ""],
      [kind |-> "g-recaptcha", value |-> ""],
      [kind |-> "other", value |-> ""] }

PageResponses ==
    {[ok |-> FALSE, status |-> "429"]}
        \cup { [ok |-> TRUE, status |-> "200", html |-> h] :
                h \in {<<f>> : f \in PageFragments}
                        \cup {<<[kind |-> "g-recaptcha", value |-> ""],
                                [kind |-> "INNERTUBE_API_KEY", value |-> "k1"]>>} }

EnglishGenerated ==
    [baseUrl |-> <<"u1", FmtParam>>, languageCode |-> "en", kind |-> "asr"]

GermanManual == [baseUrl |-> <<"u2">>, languageCode |-> "de"]

PlayerResponses ==
    {[ok |-> FALSE, status |-> "403"]}
        \cup { [ok |-> TRUE, status |-> "200", data |-> d] :
                d \in OptionalField(
                        OptionalField({<<>>}, "playabilityStatus",
                            { [status |-> StatusOK],
                              [status |-> <<"ERROR">>,
                               reason |-> ReasonMentioning({"unavailable"})],
                              [status |-> StatusLoginRequired,
                               reason |-> ReasonMentioning({"bot"})] }),
                        "captionTracks",
                        {<<>>, <<EnglishGenerated>>, <<GermanManual, EnglishGenerated>>}) }

MaxElements == 2

TextElements ==
    { [start |-> 582,   dur |-> <<20>>, text |-> <<"a">>],
      [start |-> 600,   dur |-> <<>>,   text |-> <<"b", "&amp;", "c">>],
      [start |-> 614,   dur |-> <<10>>, text |-> <<" ", "&lt;i&gt;">>],
      [start |-> 36610, dur |-> <<15>>, text |-> <<"d">>] }

TimedTextResponses ==
    {[ok |-> FALSE, status |-> "404"]}
        \cup { [ok |-> TRUE, status |-> "200", xml |-> x] :
                x \in UNION {[1..k -> TextElements] : k \in 0..MaxElements} }

Init ==
    /\ pc = "start"
    /\ argv \in ArgVectors
    /\ opts = NoValue
    /\ requests = <<>>
    /\ responses = <<>>
    /\ snippets = <<>>
    /\ stdout = <<>>
    /\ stderr = <<>>
    /\ exitCode = NoValue
    /\ call = NoValue
    /\ ret = NoValue

Next ==
    \/ MainStart
    \/ \E res \in PageResponses : PageResponse(res)
    \/ \E res \in PlayerResponses : PlayerResponse(res)
    \/ \E res \in TimedTextResponses : TimedTextResponse(res)

Spec == Init /\ [][Next]_vars

-----------------------------------------------------------------------------
(* What the claims about an invocation speak of.                           *)

Exited == pc = "exited"

RejectedWith(msg) ==
    /\ Exited
    /\ exitCode = <<1>>
    /\ stderr = <<[error |-> msg]>>
    /\ stdout = <<>>

StagesIssued == [i \in DOMAIN requests |-> requests[i].stage]

PipelineOrder == <<"page", "player", "timedtext">>

\* the page came with a success status and holds an API key
PageSucceeded(r) ==
    /\ r.ok
    /\ \E i \in DOMAIN r.html :
        r.html[i].kind = "INNERTUBE_API_KEY" /\ r.html[i].value # ""

\* the player data came with a success status, is playable and lists tracks
PlayerSucceeded(r) ==
    /\ r.ok
    /\ \/ "playabilityStatus" \notin DOMAIN r.data
       \/ "status" \notin DOMAIN r.data.playabilityStatus
       \/ r.data.playabilityStatus.status \in {<<>>, <<"OK">>}
    /\ "captionTracks" \in DOMAIN r.data
    /\ r.data.captionTracks # <<>>

StageSucceeded(k) ==
    /\ k <= Len(responses)
    /\ IF k = 1 THEN PageSucceeded(responses[k])
       ELSE IF k = 2 THEN PlayerSucceeded(responses[k])
       ELSE responses[k].ok

FromToOutOfOrder ==
    /\ "from" \in DOMAIN opts /\ "to" \in DOMAIN opts
    /\ opts.from > opts.to

-----------------------------------------------------------------------------
(* C1: in every invocation the requests are issued in the order page,      *)
(* player metadata, timed text, each at most once, the next only after the *)
(* response to the one before it has arrived and its stage has succeeded;  *)
(* a stage that fails (non-success status, no API key, unplayable video,   *)
(* no caption tracks) ends the invocation with an error message and a      *)
(* non-zero outcome, no later request and no transcript; and a transcript  *)
(* is printed only after all three stages and the filter have succeeded.   *)

C1_Pipeline ==
    /\ Len(requests) <= Len(PipelineOrder)
    /\ StagesIssued = SubSeq(PipelineOrder, 1, Len(requests))
    /\ Len(responses) <= Len(requests)
    /\ Len(requests) <= Len(responses) + 1
    /\ \A k \in 2..Len(requests) : StageSucceeded(k - 1)
    /\ \A k \in 1..Len(responses) :
        ~StageSucceeded(k) =>
            /\ Len(requests) = k
            /\ Exited /\ exitCode = <<1>> /\ Len(stderr) = 1 /\ stdout = <<>>
    /\ stdout # <<>> =>
        /\ Len(requests) = 3
        /\ \A k \in 1..3 : StageSucceeded(k)
        /\ ~FromToOutOfOrder
        /\ Exited /\ exitCode = <<0>> /\ stderr = <<>>

\* a filtered transcript has been printed after the three requests
C1_Witness ==
    /\ Exited
    /\ StagesIssued = PipelineOrder
    /\ Len(responses) = 3
    /\ "from" \in DOMAIN opts
    /\ stdout # <<>> /\ Len(stdout[1]) = 1
    /\ Len(responses[3].xml) = 2 /\ Len(snippets) = 1

-----------------------------------------------------------------------------
(* C5 (as amended): a request with a non-empty only list together with     *)
(* from or to is always rejected before any request is issued: with the    *)
(* ConflictingSelection error when the timestamps flag is given, and with  *)
(* the TimestampsRequired error when it is not.                            *)

ConflictingRequest ==
    /\ "only" \in DOMAIN opts /\ opts.only # <<>>
    /\ "from" \in DOMAIN opts \/ "to" \in DOMAIN opts

C5_ConflictRejected ==
    ConflictingRequest =>
        /\ RejectedWith(IF opts.timestamps THEN ErrConflict ELSE ErrTimestampsRequired)
        /\ requests = <<>>

\* with the timestamps flag, only together with to has been rejected as a
\* conflict
C5_Witness ==
    /\ ConflictingRequest
    /\ opts.timestamps
    /\ "from" \notin DOMAIN opts
    /\ RejectedWith(ErrConflict)

\* C5 as stated: the error is ConflictingSelection whatever the timestamps
\* flag is
C5_Original ==
    ConflictingRequest => RejectedWith(ErrConflict) /\ requests = <<>>

-----------------------------------------------------------------------------
(* C6: a request whose from and to are both given with from > to makes     *)
(* filterSnippets throw InvalidRangeOrder for every snippet sequence, the  *)
(* empty one included: once the timed text has arrived, the invocation     *)
(* ends with that error and no snippet sequence is returned or printed.    *)

FilterReached == Len(responses) = 3 /\ responses[3].ok

C6_InvalidRangeOrder ==
    (FilterReached /\ FromToOutOfOrder) =>
        /\ RejectedWith(ErrFromAfterTo)
        /\ snippets = <<>>

\* from > to over a payload without elements has ended with the error
C6_Witness ==
    /\ FilterReached
    /\ FromToOutOfOrder
    /\ responses[3].xml = <<>>
    /\ RejectedWith(ErrFromAfterTo)

-----------------------------------------------------------------------------
(* C7: every invocation whose request holds from, to, an only time or an   *)
(* exclude range without the timestamps flag is rejected with the          *)
(* TimestampsRequired error and a non-zero outcome; this check and the     *)
(* only-versus-from/to check are decided before the pipeline starts: an    *)
(* invocation that fails either has issued no request.                     *)

SelectionWithoutTimestamps ==
    /\ "timestamps" \in DOMAIN opts /\ ~opts.timestamps
    /\ \/ "from" \in DOMAIN opts
       \/ "to" \in DOMAIN opts
       \/ ("only" \in DOMAIN opts /\ opts.only # <<>>)
       \/ ("exclude" \in DOMAIN opts /\ opts.exclude # <<>>)

C7_TimestampsRequired ==
    /\ SelectionWithoutTimestamps =>
        RejectedWith(ErrTimestampsRequired) /\ requests = <<>>
    /\ (stderr = <<[error |-> ErrTimestampsRequired]>>
            \/ stderr = <<[error |-> ErrConflict]>>) =>
        requests = <<>> /\ responses = <<>>

\* exclude ranges alone, without the timestamps flag, have been rejected
C7_Witness ==
    /\ SelectionWithoutTimestamps
    /\ DOMAIN opts = {"video", "timestamps", "exclude"}
    /\ RejectedWith(ErrTimestampsRequired)
    /\ requests = <<>>

-----------------------------------------------------------------------------
(* parseTranscriptXml applied to timed-text payloads.  An element may lack *)
(* the dur attribute, carry an empty one, or a number; its inner text may  *)
(* be empty, blank, plain, padded with blanks, hold nested markup or hold  *)
(* escaped markup.                                                         *)

XmlStarts == {582, 600}

XmlTexts ==
    { <<>>,
      <<" ">>,
      <<"a">>,
      <<" ", "a", " ">>,
      <<"b", "&amp;", "c">>,
      <<"&lt;i&gt;">>,
      <<"&lt;i&gt;", "a">>,
      <<"a", "<i>", "b">> }

XmlElements ==
    { [start |-> s, text |-> x] : s \in XmlStarts, x \in XmlTexts }
        \cup { [start |-> s, dur |-> d, text |-> x] :
                s \in XmlStarts, d \in {<<>>, <<20>>}, x \in XmlTexts }

XmlInputs ==
    { [fn |-> "parseTranscriptXml", xml |-> x] :
        x \in UNION {[1..k -> XmlElements] : k \in 0..MaxElements} }

InitXml ==
    /\ pc = "call"
    /\ call \in XmlInputs
    /\ ret = NoValue
    /\ MainIdle

CallParseTranscriptXml ==
    /\ pc = "call"
    /\ call.fn = "parseTranscriptXml"
    /\ ret' = ParseTranscriptXml(call.xml)
    /\ pc' = "returned"
    /\ UNCHANGED call
    /\ MainUnchanged

NextXml == CallParseTranscriptXml

SpecXml == InitXml /\ [][NextXml]_vars

-----------------------------------------------------------------------------
(* C11: the parser emits, in payload order, exactly one snippet for every  *)
(* element of the payload whose text is non-empty after unescaping,        *)
(* stripping of markup tags and trimming, with duration 0 when the dur     *)
(* attribute is absent or empty; the elements whose normalized text is     *)
(* empty are the only ones dropped.                                        *)

XmlReturned == pc = "returned" /\ call.fn = "parseTranscriptXml"

DurationByClaim(e) ==
    IF "dur" \notin DOMAIN e \/ e.dur = <<>> THEN 0 ELSE e.dur[1]

RECURSIVE SnippetsByClaim(_)
SnippetsByClaim(xml) ==
    IF xml = <<>> THEN <<>>
    ELSE (IF NormalizeText(Head(xml).text) # <<>>
          THEN <<[text |-> NormalizeText(Head(xml).text),
                  start |-> Head(xml).start,
                  duration |-> DurationByClaim(Head(xml))]>>
          ELSE <<>>)
         \o SnippetsByClaim(Tail(xml))

C11_Original == XmlReturned => ret = SnippetsByClaim(call.xml)

-----------------------------------------------------------------------------
(* filterSnippets applied a second time, to its own result and with the    *)
(* same request.                                                           *)

CallFilterSnippetsAgain ==
    /\ pc = "returned"
    /\ call.fn = "filterSnippets"
    /\ ret.ok
    /\ ret' = [ok |-> TRUE, value |-> ret.value,
               again |-> FilterSnippets(ret.value, call.opts)]
    /\ pc' = "reapplied"
    /\ UNCHANGED call
    /\ MainUnchanged

NextTwice == CallFilterSnippets \/ CallFilterSnippetsAgain

SpecTwice == InitFilter /\ [][NextTwice]_vars

-----------------------------------------------------------------------------
(* C12: filterSnippets is idempotent: wherever it succeeds, applying it    *)
(* to its own result with the same request returns that result again;      *)
(* every result is a subsequence of the input in the original relative     *)
(* order; and the input sequence is left as it was.                        *)

RECURSIVE IsSubsequenceOf(_, _)
IsSubsequenceOf(a, b) ==
    IF a = <<>> THEN TRUE
    ELSE IF b = <<>> THEN FALSE
    ELSE IF Head(a) = Head(b) THEN IsSubsequenceOf(Tail(a), Tail(b))
    ELSE IsSubsequenceOf(a, Tail(b))

Reapplied == pc = "reapplied"

IdempotentHere ==
    /\ (FilterReturned /\ ret.ok) => IsSubsequenceOf(ret.value, call.snippets)
    /\ Reapplied =>
        /\ ret.again = Return(ret.value)
        /\ IsSubsequenceOf(ret.again.value, call.snippets)

C12_Idempotent == [](IdempotentHere) /\ [][call' = call]_vars

\* a range with an exclude range has kept the first and the third of three
\* snippets, and the second application has returned
C12_Witness ==
    /\ Reapplied
    /\ Len(call.snippets) = 3
    /\ "from" \in DOMAIN call.opts
    /\ "exclude" \in DOMAIN call.opts /\ call.opts.exclude # <<>>
    /\ ret.value = <<call.snippets[1], call.snippets[3]>>

=============================================================================
